---------------------------- MODULE Spec2Model ----------------------------
(***************************************************************************)
(* Model of the transfer-form generator (src/app.py): the amount-in-words  *)
(* converter, the context built by the /generate handler, the signature    *)
(* resolver with its record-store calls, and the reconciliation of the     *)
(* template's placeholders against the context.                            *)
(*                                                                         *)
(* Python strings are sequences of one-character strings, so that strip,   *)
(* replace, split, upper and title are computed character by character.    *)
(* Dictionary keys and placeholder names are TLA+ strings.                 *)
(***************************************************************************)
EXTENDS Integers, Sequences, FiniteSets, TLC

\* --------------------------------------------------------------- bounds
\* longest amount string handed to amount_to_words on its own
MaxLen == 3
\* most records the remitter database holds
MaxRecords == 2

\* ----------------------------------------------------- Python str methods
LowerLetters == <<"a", "b", "c", "d", "e", "f", "g", "h", "i", "j", "k", "l", "m", "n", "o", "p", "q", "r", "s", "t", "u", "v", "w", "x", "y", "z">>
UpperLetters == <<"A", "B", "C", "D", "E", "F", "G", "H", "I", "J", "K", "L", "M", "N", "O", "P", "Q", "R", "S", "T", "U", "V", "W", "X", "Y", "Z">>
Digits == <<"0", "1", "2", "3", "4", "5", "6", "7", "8", "9">>

PosIn(c, s) == IF \E i \in 1..Len(s) : s[i] = c THEN CHOOSE i \in 1..Len(s) : s[i] = c ELSE 0

IsCased(c) == PosIn(c, LowerLetters) > 0 \/ PosIn(c, UpperLetters) > 0

UpperChar(c) == IF PosIn(c, LowerLetters) > 0 THEN UpperLetters[PosIn(c, LowerLetters)] ELSE c

LowerChar(c) == IF PosIn(c, UpperLetters) > 0 THEN LowerLetters[PosIn(c, UpperLetters)] ELSE c

\* str.upper()
StrUpper(s) == [i \in 1..Len(s) |-> UpperChar(s[i])]

\* str.title(): a cased character is upper-cased unless a cased character precedes it
StrTitle(s) == [i \in 1..Len(s) |-> IF i > 1 /\ IsCased(s[i - 1]) THEN LowerChar(s[i]) ELSE UpperChar(s[i])]

IsSpace(c) == c = " "

RECURSIVE LStrip(_)
LStrip(s) == IF Len(s) > 0 /\ IsSpace(s[1]) THEN LStrip(Tail(s)) ELSE s

RECURSIVE RStrip(_)
RStrip(s) == IF Len(s) > 0 /\ IsSpace(s[Len(s)]) THEN RStrip(SubSeq(s, 1, Len(s) - 1)) ELSE s

\* str.strip()
Strip(s) == RStrip(LStrip(s))

\* str.replace(a, "")
RemoveChar(s, a) == SelectSeq(s, LAMBDA c : c # a)

\* str.replace(a, b) for single characters
ReplaceChar(s, a, b) == [i \in 1..Len(s) |-> IF s[i] = a THEN b ELSE s[i]]

\* str.split(sep) for a single-character separator
RECURSIVE Split(_, _)
Split(s, sep) ==
    IF \E i \in 1..Len(s) : s[i] = sep
    THEN LET k == CHOOSE i \in 1..Len(s) : s[i] = sep /\ \A j \in 1..(i - 1) : s[j] # sep
         IN <<SubSeq(s, 1, k - 1)>> \o Split(SubSeq(s, k + 1, Len(s)), sep)
    ELSE <<s>>

\* str.isdigit()
IsDigitStr(s) == Len(s) > 0 /\ \A i \in 1..Len(s) : PosIn(s[i], Digits) > 0

RECURSIVE DigitsValue(_)
DigitsValue(s) == IF Len(s) = 0 THEN 0 ELSE 10 * DigitsValue(SubSeq(s, 1, Len(s) - 1)) + (PosIn(s[Len(s)], Digits) - 1)

\* int(s): surrounding whitespace is ignored, one sign is allowed, the rest must
\* be digits; anything else raises ValueError (ok = FALSE). (int also accepts
\* "_" between digits; the amounts of this model hold none.)
IntParse(s) ==
    LET t == Strip(s)
        signed == Len(t) > 0 /\ t[1] \in {"-", "+"}
        body == IF signed THEN Tail(t) ELSE t
    IN IF IsDigitStr(body)
       THEN [ok |-> TRUE, val |-> IF signed /\ t[1] = "-" THEN 0 - DigitsValue(body) ELSE DigitsValue(body)]
       ELSE [ok |-> FALSE, val |-> 0]

\* ------------------------------------------------------------- num2words
\* The cardinal speller of the num2words library as amount_to_words calls it
\* (to="cardinal"): English number words, tens and ones joined by "-", "and"
\* before a remainder below one hundred, ", " before a larger remainder;
\* lang "en_IN" groups by lakh and crore, lang "en" by thousand and million.
SmallWords == <<<<"o", "n", "e">>, <<"t", "w", "o">>, <<"t", "h", "r", "e", "e">>, <<"f", "o", "u", "r">>, <<"f", "i", "v", "e">>, <<"s", "i", "x">>, <<"s", "e", "v", "e", "n">>, <<"e", "i", "g", "h", "t">>, <<"n", "i", "n", "e">>, <<"t", "e", "n">>,
                <<"e", "l", "e", "v", "e", "n">>, <<"t", "w", "e", "l", "v", "e">>, <<"t", "h", "i", "r", "t", "e", "e", "n">>, <<"f", "o", "u", "r", "t", "e", "e", "n">>, <<"f", "i", "f", "t", "e", "e", "n">>, <<"s", "i", "x", "t", "e", "e", "n">>, <<"s", "e", "v", "e", "n", "t", "e", "e", "n">>,
                <<"e", "i", "g", "h", "t", "e", "e", "n">>, <<"n", "i", "n", "e", "t", "e", "e", "n">>>>
TensWords == <<<<"t", "e", "n">>, <<"t", "w", "e", "n", "t", "y">>, <<"t", "h", "i", "r", "t", "y">>, <<"f", "o", "r", "t", "y">>, <<"f", "i", "f", "t", "y">>, <<"s", "i", "x", "t", "y">>, <<"s", "e", "v", "e", "n", "t", "y">>, <<"e", "i", "g", "h", "t", "y">>, <<"n", "i", "n", "e", "t", "y">>>>

Below100(n) ==
    IF n = 0 THEN <<"z", "e", "r", "o">>
    ELSE IF n < 20 THEN SmallWords[n]
    ELSE IF n % 10 = 0 THEN TensWords[n \div 10]
    ELSE TensWords[n \div 10] \o <<"-">> \o SmallWords[n % 10]

Cards(lang) ==
    IF lang = "en_IN"
    THEN <<[num |-> 10000000, word |-> <<"c", "r", "o", "r", "e">>], [num |-> 100000, word |-> <<"l", "a", "k", "h">>],
           [num |-> 1000, word |-> <<"t", "h", "o", "u", "s", "a", "n", "d">>], [num |-> 100, word |-> <<"h", "u", "n", "d", "r", "e", "d">>]>>
    ELSE <<[num |-> 1000000, word |-> <<"m", "i", "l", "l", "i", "o", "n">>],
           [num |-> 1000, word |-> <<"t", "h", "o", "u", "s", "a", "n", "d">>], [num |-> 100, word |-> <<"h", "u", "n", "d", "r", "e", "d">>]>>

RECURSIVE Cardinal(_, _)
Cardinal(n, lang) ==
    IF n < 100 THEN Below100(n)
    ELSE LET cards == Cards(lang)
             k == CHOOSE i \in 1..Len(cards) : cards[i].num <= n /\ \A j \in 1..(i - 1) : cards[j].num > n
             q == n \div cards[k].num
             r == n % cards[k].num
             head == Cardinal(q, lang) \o <<" ">> \o cards[k].word
         IN IF r = 0 THEN head
            ELSE IF r < 100 THEN head \o <<" ", "a", "n", "d", " ">> \o Cardinal(r, lang)
            ELSE head \o <<",", " ">> \o Cardinal(r, lang)

num2words(n, lang) == IF n < 0 THEN <<"m", "i", "n", "u", "s", " ">> \o Cardinal(0 - n, lang) ELSE Cardinal(n, lang)

\* ------------------------------------------------------- amount_to_words
DollarCodes == {<<"U", "S", "D">>, <<"C", "A", "D">>, <<"A", "U", "D">>, <<"N", "Z", "D">>, <<"S", "G", "D">>, <<"H", "K", "D">>}
RialCodes == {<<"S", "A", "R">>, <<"Q", "A", "R">>, <<"O", "M", "R">>}
GulfCodes == {<<"A", "E", "D">>, <<"S", "A", "R">>, <<"Q", "A", "R">>, <<"O", "M", "R">>, <<"B", "H", "D">>, <<"K", "W", "D">>}

\* the major-unit name (lines 316-332)
MajorUnit(cur, major) ==
    IF cur = <<"I", "N", "R">> THEN (IF major = 1 THEN <<"R", "u", "p", "e", "e">> ELSE <<"R", "u", "p", "e", "e", "s">>)
    ELSE IF cur \in DollarCodes THEN (IF major = 1 THEN <<"D", "o", "l", "l", "a", "r">> ELSE <<"D", "o", "l", "l", "a", "r", "s">>)
    ELSE IF cur = <<"E", "U", "R">> THEN (IF major = 1 THEN <<"E", "u", "r", "o">> ELSE <<"E", "u", "r", "o", "s">>)
    ELSE IF cur = <<"G", "B", "P">> THEN (IF major = 1 THEN <<"P", "o", "u", "n", "d">> ELSE <<"P", "o", "u", "n", "d", "s">>)
    ELSE IF cur \in GulfCodes
         THEN (IF cur = <<"A", "E", "D">> THEN <<"D", "i", "r", "h", "a", "m">> ELSE IF cur \in RialCodes THEN <<"R", "i", "a", "l">> ELSE <<"D", "i", "n", "a", "r">>)
    ELSE <<>>

\* the minor-unit name (lines 316-332)
MinorUnit(cur, minor) ==
    IF cur = <<"I", "N", "R">> THEN (IF minor = 1 THEN <<"P", "a", "i", "s", "a">> ELSE <<"P", "a", "i", "s", "e">>)
    ELSE IF cur \in DollarCodes THEN (IF minor = 1 THEN <<"C", "e", "n", "t">> ELSE <<"C", "e", "n", "t", "s">>)
    ELSE IF cur = <<"E", "U", "R">> THEN (IF minor = 1 THEN <<"C", "e", "n", "t">> ELSE <<"C", "e", "n", "t", "s">>)
    ELSE IF cur = <<"G", "B", "P">> THEN <<"P", "e", "n", "c", "e">>
    ELSE IF cur \in GulfCodes THEN <<"F", "i", "l", "s">>
    ELSE <<>>

\* lines 303-309: the major and minor parts, or the ValueError of int()
ParseAmount(amount_str) ==
    LET s == RemoveChar(Strip(amount_str), ",")
        parts == Split(s, ".")
        p0 == IF Len(parts[1]) > 0 THEN IntParse(parts[1]) ELSE [ok |-> TRUE, val |-> 0]
        minor == IF Len(parts) > 1 /\ IsDigitStr(parts[2])
                 THEN DigitsValue(SubSeq(parts[2] \o <<"0", "0">>, 1, 2))
                 ELSE 0
    IN [ok |-> p0.ok, major |-> p0.val, minor |-> minor]

\* lines 334-339 with the test of the major unit ahead of the test of the minor part
ComposeMajorFirst(major_words, major_unit, minor, minor_words, minor_unit) ==
    IF Len(major_unit) > 0
    THEN StrTitle(major_words) \o <<" ">> \o major_unit \o <<" ", "O", "n", "l", "y">>
    ELSE IF minor # 0 /\ Len(minor_unit) > 0
    THEN StrTitle(major_words) \o <<" ">> \o major_unit \o <<" ", "A", "n", "d", " ">> \o StrTitle(minor_words) \o <<" ">> \o minor_unit \o <<" ", "O", "n", "l", "y">>
    ELSE IF minor = 0
    THEN StrTitle(major_words) \o <<" ", "O", "n", "l", "y">>
    ELSE StrTitle(major_words) \o <<" ", "P", "o", "i", "n", "t", " ">> \o StrTitle(minor_words) \o <<" ", "O", "n", "l", "y">>

\* lines 334-339: the composed phrase
Compose(major_words, major_unit, minor, minor_words, minor_unit) ==
    IF minor # 0 /\ Len(minor_unit) > 0
    THEN StrTitle(major_words) \o <<" ">> \o major_unit \o <<" ", "A", "n", "d", " ">> \o StrTitle(minor_words) \o <<" ">> \o minor_unit \o <<" ", "O", "n", "l", "y">>
    ELSE IF Len(major_unit) > 0
    THEN StrTitle(major_words) \o <<" ">> \o major_unit \o <<" ", "O", "n", "l", "y">>
    ELSE IF minor = 0
    THEN StrTitle(major_words) \o <<" ", "O", "n", "l", "y">>
    ELSE StrTitle(major_words) \o <<" ", "P", "o", "i", "n", "t", " ">> \o StrTitle(minor_words) \o <<" ", "O", "n", "l", "y">>

amount_to_words(amount_str, currency_code) ==
    IF Len(amount_str) = 0 THEN <<>>
    ELSE LET p == ParseAmount(amount_str)
         IN IF ~p.ok THEN <<>>
            ELSE LET lang == IF StrUpper(currency_code) = <<"I", "N", "R">> THEN "en_IN" ELSE "en"
                     major_words == ReplaceChar(num2words(p.major, lang), "-", " ")
                     minor_words == IF p.minor # 0 THEN ReplaceChar(num2words(p.minor, lang), "-", " ") ELSE <<>>
                     cur == StrUpper(currency_code)
                 IN Compose(major_words, MajorUnit(cur, p.major), p.minor, minor_words, MinorUnit(cur, p.minor))

\* ------------------------------------ a call of amount_to_words on its own
VARIABLES wpc, wAmount, wCurrency, wOut

wvars == <<wpc, wAmount, wCurrency, wOut>>

\* ------------------------------------------------------------ dictionaries
\* a JSON object is a function from its keys (TLA+ strings) to texts
EmptyDict == [k \in {} |-> <<>>]

\* d.get(k, default)
Get(d, k, default) == IF k \in DOMAIN d THEN d[k] ELSE default

\* d.get(k) or alt : an absent key and an empty text are both falsy
GetOr(d, k, alt) == IF k \in DOMAIN d /\ Len(d[k]) > 0 THEN d[k] ELSE alt

\* the part of d outside the keys of absent
Without(d, absent) == [k \in (DOMAIN d) \ absent |-> d[k]]

\* ------------------------------------------------------- record store data
\* a property of a page: a title (rich-text fragments) or a files list
TitleProp(fragments) == [type |-> "title", title |-> fragments, files |-> <<>>]
FilesProp(files) == [type |-> "files", title |-> <<>>, files |-> files]
NoProp == [type |-> "", title |-> <<>>, files |-> <<>>]

RECURSIVE Concat(_)
Concat(texts) == IF Len(texts) = 0 THEN <<>> ELSE texts[1] \o Concat(Tail(texts))

get_title(p) == Concat(p.title)

get_file_url(p) ==
    IF Len(p.files) = 0 THEN <<>>
    ELSE IF p.files[1].type \in {"file", "external"} THEN p.files[1].url
    ELSE <<>>

title_prop_name(db) ==
    IF \E i \in 1..Len(db) : db[i].type = "title"
    THEN db[CHOOSE i \in 1..Len(db) : db[i].type = "title" /\ \A j \in 1..(i - 1) : db[j].type # "title"].name
    ELSE "Name"

\* props.get(name, {})
Prop(props, name) == IF name \in DOMAIN props THEN props[name] ELSE NoProp

\* one response of the database query: the records from start on, at most
\* page_size of them, and whether more follow
QueryResponse(records, page_size, start) ==
    LET last == IF start + page_size - 1 < Len(records) THEN start + page_size - 1 ELSE Len(records)
    IN [results |-> SubSeq(records, start, last), has_more |-> last < Len(records), next_cursor |-> last + 1]

\* payload["start_cursor"] = data.get("next_cursor")
NextCursorKept(data, cursor) == cursor
NextCursor(data, cursor) == data.next_cursor

\* the scan of lines 244-252 going on past a match whose Signature is empty
RECURSIVE ScanPagesNonEmpty(_, _, _)
ScanPagesNonEmpty(pages, title_prop, target_upper) ==
    IF Len(pages) = 0 THEN <<>>
    ELSE LET props == pages[1].properties
             page_name == get_title(Prop(props, title_prop))
             url == get_file_url(Prop(props, "Signature"))
         IN IF Len(page_name) > 0 /\ StrUpper(Strip(page_name)) = target_upper /\ Len(url) > 0
            THEN url
            ELSE ScanPagesNonEmpty(Tail(pages), title_prop, target_upper)

\* lines 244-252: the scan of the listed pages for the name
RECURSIVE ScanPages(_, _, _)
ScanPages(pages, title_prop, target_upper) ==
    IF Len(pages) = 0 THEN <<>>
    ELSE LET props == pages[1].properties
             page_name == get_title(Prop(props, title_prop))
         IN IF Len(page_name) > 0 /\ StrUpper(Strip(page_name)) = target_upper
            THEN get_file_url(Prop(props, "Signature"))
            ELSE ScanPages(Tail(pages), title_prop, target_upper)

\* ------------------------------------------------------------ the context
SIGNATURE_WIDTH_MM == 25

\* a context value: a text, or the inline image build_signature_image makes
Text(s) == [kind |-> "str", text |-> s, width_mm |-> 0]
InlineImage(url) == [kind |-> "InlineImage", text |-> url, width_mm |-> SIGNATURE_WIDTH_MM]

\* str(datetime.date.today())
Today == <<"2", "0", "2", "6", "-", "0", "1", "-", "1", "5">>

\* upper(v)
upper(v) == StrUpper(v)

BeneficiaryUpperKeys == {"beneficiary_name", "beneficiary_address", "beneficiary_country",
    "beneficiary_bank_name", "beneficiary_bank_address", "beneficiary_bank_country",
    "beneficiary_bank_swift", "intermediary_bank_name", "intermediary_bank_address",
    "intermediary_bank_swift"}
BeneficiaryKeys == {"beneficiary_account_number"} \cup BeneficiaryUpperKeys

\* context key -> remitter field
RemitterRawKeys == {"remitter_account_no", "remitter_phone"}
RemitterUpperKeys == {"remitter_name", "remitter_address", "remitter_id_type", "remitter_id_value"}
RemitterField(key) ==
    CASE key = "remitter_name" -> "name"
      [] key = "remitter_account_no" -> "account_no"
      [] key = "remitter_address" -> "address"
      [] key = "remitter_phone" -> "phone"
      [] key = "remitter_id_type" -> "id_type"
      [] key = "remitter_id_value" -> "id_value"

ExtraKeys == {"date", "currency", "amount_figures", "amount_figures_text", "charges",
    "account_to_be_debited_number_currency", "notes"}

ContextKeys == BeneficiaryKeys \cup RemitterRawKeys \cup RemitterUpperKeys \cup ExtraKeys

\* line 447
Currency(extra) == StrUpper(Strip(GetOr(extra, "currency", <<"U", "S", "D">>)))
\* line 448
AmountFigures(extra) == Strip(GetOr(extra, "amount_figures", <<>>))
\* line 449
AmountFiguresText(extra) == upper(amount_to_words(AmountFigures(extra), Currency(extra)))

\* lines 452-480 with every key inserted only when its input is present
BuildContextSparse(beneficiary, remitter, extra) ==
    [key \in {k \in ContextKeys :
                 \/ k \in BeneficiaryKeys /\ k \in DOMAIN beneficiary
                 \/ k \in RemitterRawKeys \cup RemitterUpperKeys /\ RemitterField(k) \in DOMAIN remitter
                 \/ k \in ExtraKeys /\ (k \in DOMAIN extra \/ k \in {"currency", "amount_figures", "amount_figures_text"})} |->
        IF key \in BeneficiaryKeys THEN Text(beneficiary[key])
        ELSE IF key \in RemitterRawKeys \cup RemitterUpperKeys THEN Text(remitter[RemitterField(key)])
        ELSE IF key = "currency" THEN Text(Currency(extra))
        ELSE IF key = "amount_figures" THEN Text(AmountFigures(extra))
        ELSE IF key = "amount_figures_text" THEN Text(AmountFiguresText(extra))
        ELSE Text(extra[key])]

\* lines 452-480
BuildContext(beneficiary, remitter, extra) ==
    [key \in ContextKeys |->
        IF key = "beneficiary_account_number" THEN Text(Get(beneficiary, key, <<>>))
        ELSE IF key \in BeneficiaryUpperKeys THEN Text(upper(Get(beneficiary, key, <<>>)))
        ELSE IF key \in RemitterRawKeys THEN Text(Get(remitter, RemitterField(key), <<>>))
        ELSE IF key \in RemitterUpperKeys THEN Text(upper(Get(remitter, RemitterField(key), <<>>)))
        ELSE IF key = "date" THEN Text(GetOr(extra, "date", Today))
        ELSE IF key = "currency" THEN Text(Currency(extra))
        ELSE IF key = "amount_figures" THEN Text(AmountFigures(extra))
        ELSE IF key = "amount_figures_text" THEN Text(AmountFiguresText(extra))
        ELSE IF key = "charges" THEN Text(upper(Get(extra, "charges", <<"S", "H", "A">>)))
        ELSE Text(upper(Get(extra, key, <<>>)))]

\* ---------------------------------------------------------- the template
\* the placeholder names in code-point order, as sorted() compares them
NameOrder == <<"Date", "date", "foo", "signature">>

TemplateNames == {NameOrder[i] : i \in 1..Len(NameOrder)}

Rank(name) == PosIn(name, NameOrder)

\* list(a_set): the elements in some enumeration order
Enumerations(S) == {e \in [1..Cardinality(S) -> S] : \A i, j \in 1..Cardinality(S) : e[i] = e[j] => i = j}

RECURSIVE Insert(_, _)
Insert(sorted, name) ==
    IF Len(sorted) = 0 THEN <<name>>
    ELSE IF Rank(name) <= Rank(sorted[1]) THEN <<name>> \o sorted
    ELSE <<sorted[1]>> \o Insert(Tail(sorted), name)

RECURSIVE Sorted(_)
Sorted(names) == IF Len(names) = 0 THEN <<>> ELSE Insert(Sorted(Tail(names)), names[1])

\* lines 202-210: the sorted names; an exception of the extraction other than
\* TypeError is swallowed and no name is returned
list_template_vars_unsorted(enumeration, outcome) ==
    IF outcome \in {"ok", "type_error"} THEN enumeration ELSE <<>>
list_template_vars(enumeration, outcome) ==
    IF outcome \in {"ok", "type_error"} THEN Sorted(enumeration) ELSE <<>>

\* line 493
Missing(wanted, c) == SelectSeq(wanted, LAMBDA m : m \notin DOMAIN c)

\* ----------------------------------------------------- exception handlers
\* what becomes of an exception raised inside a try block: it is swallowed
\* by the block's handler, or it propagates to the caller
Propagates(where) == "propagate"
\* lines 289-290, 253-255, 227-229: except Exception
Handler(where) == "swallow"

\* line 265
DirectUrlIgnored(remitter) == <<>>
DirectUrl(remitter) == GetOr(remitter, "signature_url", <<>>)

\* ------------------------------------------------------ the /generate call
VARIABLES
    pc,             \* where the handler stands
    beneficiary,    \* data["beneficiary"]
    remitter,       \* data["remitter"]
    extra,          \* data["extra"]
    store,          \* the record store: the remitter's page, the remitter database
    template,       \* the template file: the placeholder names it declares
    ctx,            \* the context
    signature_url,  \* the result of fetch_signature_url_from_notion
    title_prop,     \* find_remitter_signature_by_name: the title property's name
    cursor,         \* notion_query_all: payload["start_cursor"] (1: none yet)
    results,        \* notion_query_all: the records listed so far
    calls,          \* the HTTP calls issued so far, oldest first
    wanted,         \* the names list_template_vars returned
    extraction,     \* how the extraction of the template's names ended
    render_calls,   \* number of tpl.render calls
    saved,          \* where the rendered document went
    response        \* the response of the handler

gvars == <<pc, beneficiary, remitter, extra, store, template, ctx, signature_url, title_prop,
           cursor, results, calls, wanted, extraction, render_calls, saved, response>>

NoResponse == [status |-> 0, keys |-> {}, missing_variables |-> <<>>, stage |-> ""]

\* {"ok": False, "error": ...}, status
ErrorResponse(status, stage) ==
    [status |-> status, keys |-> {"ok", "error"}, missing_variables |-> <<>>, stage |-> stage]

\* line 496
MissingResponse(missing) ==
    [status |-> 400, keys |-> {"ok", "error", "missing_variables"}, missing_variables |-> missing, stage |-> "reconcile"]

\* lines 505, 513
MessageResponse == [status |-> 200, keys |-> {"ok", "message"}, missing_variables |-> <<>>, stage |-> "output"]

\* lines 529-534
FileResponse == [status |-> 200, keys |-> {}, missing_variables |-> <<>>, stage |-> "output"]

Call(kind, outcome) == [kind |-> kind, outcome |-> outcome]

FetchOutcomes == {"ok", "not_found", "http_error", "transport_error"}

\* lines 437-440
AssertEnv ==
    /\ pc = "start"
    /\ \E env_ok \in BOOLEAN :
         IF env_ok
         THEN pc' = "build" /\ UNCHANGED response
         ELSE pc' = "done" /\ response' = ErrorResponse(400, "env")
    /\ UNCHANGED wvars
    /\ UNCHANGED <<beneficiary, remitter, extra, store, template, ctx, signature_url, title_prop,
                   cursor, results, calls, wanted, extraction, render_calls, saved>>

\* lines 442-480
BuildCtx ==
    /\ pc = "build"
    /\ ctx' = BuildContext(beneficiary, remitter, extra)
    /\ pc' = "template"
    /\ UNCHANGED wvars
    /\ UNCHANGED <<beneficiary, remitter, extra, store, template, signature_url, title_prop,
                   cursor, results, calls, wanted, extraction, render_calls, saved, response>>

\* lines 483-484; an exception goes to the handler of line 535
LoadTemplate ==
    /\ pc = "template"
    /\ \E loaded \in BOOLEAN :
         IF loaded
         THEN pc' = "resolve" /\ UNCHANGED response
         ELSE pc' = "done" /\ response' = ErrorResponse(500, "template")
    /\ UNCHANGED wvars
    /\ UNCHANGED <<beneficiary, remitter, extra, store, template, ctx, signature_url, title_prop,
                   cursor, results, calls, wanted, extraction, render_calls, saved>>

\* fetch_signature_url_from_notion, lines 265-272
ResolveDirect ==
    /\ pc = "resolve"
    /\ LET url == DirectUrl(remitter)
           page_id == GetOr(remitter, "id", <<>>)
       IN IF Len(url) > 0
          THEN signature_url' = url /\ pc' = "image"
          ELSE /\ signature_url' = <<>>
               /\ pc' = IF Len(page_id) > 0 THEN "fetch_page" ELSE "name_lookup"
    /\ UNCHANGED wvars
    /\ UNCHANGED <<beneficiary, remitter, extra, store, template, ctx, title_prop,
                   cursor, results, calls, wanted, extraction, render_calls, saved, response>>

\* fetch_signature_url_from_notion, lines 273-290
FetchPage ==
    /\ pc = "fetch_page"
    /\ \E outcome \in FetchOutcomes :
         /\ calls' = Append(calls, Call("get_page", outcome))
         /\ IF outcome = "ok"
            THEN /\ signature_url' = get_file_url(Prop(store.page, "Signature"))
                 /\ pc' = "image"
                 /\ UNCHANGED response
            ELSE IF Handler("get_page") = "swallow"
            THEN pc' = "name_lookup" /\ UNCHANGED <<signature_url, response>>
            ELSE pc' = "done" /\ response' = ErrorResponse(500, "get_page") /\ UNCHANGED signature_url
    /\ UNCHANGED wvars
    /\ UNCHANGED <<beneficiary, remitter, extra, store, template, ctx, title_prop,
                   cursor, results, wanted, extraction, render_calls, saved>>

\* line 294 without the remitter_name alternative
LookupNameOnly(r) == GetOr(r, "name", <<>>)

\* the name fetch_signature_url_from_notion hands to the search, line 294
LookupName(r) == GetOr(r, "name", GetOr(r, "remitter_name", <<>>))

\* lines 292-295 and find_remitter_signature_by_name, lines 236-238
NameLookup ==
    /\ pc = "name_lookup"
    /\ IF Len(LookupName(remitter)) = 0
       THEN signature_url' = <<>> /\ pc' = "image"
       ELSE UNCHANGED signature_url /\ pc' = "get_database"
    /\ UNCHANGED wvars
    /\ UNCHANGED <<beneficiary, remitter, extra, store, template, ctx, title_prop,
                   cursor, results, calls, wanted, extraction, render_calls, saved, response>>

\* find_remitter_signature_by_name, lines 241-242 (notion_get_database, lines 71-80)
GetDatabase ==
    /\ pc = "get_database"
    /\ \E outcome \in FetchOutcomes :
         /\ calls' = Append(calls, Call("get_database", outcome))
         /\ IF outcome = "ok"
            THEN /\ title_prop' = title_prop_name(store.schema)
                 /\ pc' = "query"
                 /\ UNCHANGED <<signature_url, response>>
            ELSE IF Handler("get_database") = "swallow"
            THEN signature_url' = <<>> /\ pc' = "image" /\ UNCHANGED <<title_prop, response>>
            ELSE pc' = "done" /\ response' = ErrorResponse(500, "get_database") /\ UNCHANGED <<signature_url, title_prop>>
    /\ UNCHANGED wvars
    /\ UNCHANGED <<beneficiary, remitter, extra, store, template, ctx,
                   cursor, results, wanted, extraction, render_calls, saved>>

\* one turn of the loop of notion_query_all, lines 90-97, and, after the last
\* page, the scan of find_remitter_signature_by_name, lines 244-252
QueryDatabase ==
    /\ pc = "query"
    /\ \E outcome \in FetchOutcomes \ {"not_found"} :
         /\ calls' = Append(calls, Call("query_database", outcome))
         /\ IF outcome = "ok"
            THEN LET data == QueryResponse(store.records, store.page_size, cursor)
                     listed == results \o data.results
                 IN /\ results' = listed
                    /\ UNCHANGED response
                    /\ IF data.has_more
                       THEN /\ cursor' = NextCursor(data, cursor)
                            /\ pc' = "query"
                            /\ UNCHANGED signature_url
                       ELSE /\ signature_url' = ScanPages(listed, title_prop, StrUpper(Strip(LookupName(remitter))))
                            /\ pc' = "image"
                            /\ UNCHANGED cursor
            ELSE IF Handler("query_database") = "swallow"
            THEN signature_url' = <<>> /\ pc' = "image" /\ UNCHANGED <<cursor, results, response>>
            ELSE pc' = "done" /\ response' = ErrorResponse(500, "query_database") /\ UNCHANGED <<signature_url, cursor, results>>
    /\ UNCHANGED wvars
    /\ UNCHANGED <<beneficiary, remitter, extra, store, template, ctx, title_prop,
                   wanted, extraction, render_calls, saved>>

\* build_signature_image, lines 212-229, and line 488
BuildSignatureImage ==
    /\ pc = "image"
    /\ IF Len(signature_url) = 0
       THEN /\ ctx' = ctx @@ ("signature" :> Text(<<>>))
            /\ pc' = "list_vars"
            /\ UNCHANGED <<calls, response>>
       ELSE \E outcome \in FetchOutcomes :
              /\ calls' = Append(calls, Call("download", outcome))
              /\ IF outcome = "ok"
                 THEN /\ ctx' = ctx @@ ("signature" :> InlineImage(signature_url))
                      /\ pc' = "list_vars"
                      /\ UNCHANGED response
                 ELSE IF Handler("download") = "swallow"
                 THEN /\ ctx' = ctx @@ ("signature" :> Text(<<>>))
                      /\ pc' = "list_vars"
                      /\ UNCHANGED response
                 ELSE pc' = "done" /\ response' = ErrorResponse(500, "download") /\ UNCHANGED ctx
    /\ UNCHANGED wvars
    /\ UNCHANGED <<beneficiary, remitter, extra, store, template, signature_url, title_prop,
                   cursor, results, wanted, extraction, render_calls, saved>>

ExtractionOutcomes == {"ok", "type_error", "error", "raise"}

\* line 491 (list_template_vars, lines 202-210); "raise" is an exception that
\* leaves list_template_vars: of the constructor, or of the call in the
\* TypeError handler
ListTemplateVars ==
    /\ pc = "list_vars"
    /\ \E enumeration \in Enumerations(template.declared), outcome \in ExtractionOutcomes :
         /\ extraction' = outcome
         /\ IF outcome = "raise"
            THEN pc' = "done" /\ response' = ErrorResponse(500, "list_vars") /\ UNCHANGED wanted
            ELSE pc' = "reconcile" /\ wanted' = list_template_vars(enumeration, outcome) /\ UNCHANGED response
    /\ UNCHANGED wvars
    /\ UNCHANGED <<beneficiary, remitter, extra, store, template, ctx, signature_url, title_prop,
                   cursor, results, calls, render_calls, saved>>

\* lines 493-496
Reconcile ==
    /\ pc = "reconcile"
    /\ LET missing == Missing(wanted, ctx)
       IN IF Len(missing) > 0
          THEN pc' = "done" /\ response' = MissingResponse(missing)
          ELSE pc' = "render" /\ UNCHANGED response
    /\ UNCHANGED wvars
    /\ UNCHANGED <<beneficiary, remitter, extra, store, template, ctx, signature_url, title_prop,
                   cursor, results, calls, wanted, extraction, render_calls, saved>>

\* line 498
Render ==
    /\ pc = "render"
    /\ render_calls' = render_calls + 1
    /\ \E rendered \in BOOLEAN :
         IF rendered
         THEN pc' = "output" /\ UNCHANGED response
         ELSE pc' = "done" /\ response' = ErrorResponse(500, "render")
    /\ UNCHANGED wvars
    /\ UNCHANGED <<beneficiary, remitter, extra, store, template, ctx, signature_url, title_prop,
                   cursor, results, calls, wanted, extraction, saved>>

\* lines 500-534
Output ==
    /\ pc = "output"
    /\ pc' = "done"
    /\ \E written \in BOOLEAN :
         IF ~written
         THEN response' = ErrorResponse(500, "output") /\ UNCHANGED saved
         ELSE IF Len(GetOr(extra, "overwrite", <<>>)) > 0
         THEN saved' = "template" /\ response' = MessageResponse
         ELSE IF Len(GetOr(extra, "out_path", <<>>)) > 0
         THEN saved' = "out_path" /\ response' = MessageResponse
         ELSE saved' = "download" /\ response' = FileResponse
    /\ UNCHANGED wvars
    /\ UNCHANGED <<beneficiary, remitter, extra, store, template, ctx, signature_url, title_prop,
                   cursor, results, calls, wanted, extraction, render_calls>>

Next ==
    \/ AssertEnv
    \/ BuildCtx
    \/ LoadTemplate
    \/ ResolveDirect
    \/ FetchPage
    \/ NameLookup
    \/ GetDatabase
    \/ QueryDatabase
    \/ BuildSignatureImage
    \/ ListTemplateVars
    \/ Reconcile
    \/ Render
    \/ Output

\* ------------------------------------------------------------ the requests
\* the state of the handler's locals before the call
Idle ==
    /\ pc = "start"
    /\ ctx = EmptyDict
    /\ signature_url = <<>>
    /\ title_prop = ""
    /\ cursor = 1
    /\ results = <<>>
    /\ calls = <<>>
    /\ wanted = <<>>
    /\ extraction = ""
    /\ render_calls = 0
    /\ saved = ""
    /\ response = NoResponse

\* the remitter database's schemas
Schemas == {
    <<[name |-> "Name", type |-> "title"], [name |-> "Signature", type |-> "files"]>>,
    <<[name |-> "Signature", type |-> "files"], [name |-> "Remitter", type |-> "title"]>>}

File(url) == [type |-> "file", url |-> url]
External(url) == [type |-> "external", url |-> url]

Page(title_name, fragments, files) ==
    [properties |-> (title_name :> TitleProp(fragments)) @@ ("Signature" :> FilesProp(files))]

\* the records a remitter database may hold: one named "alice " with no
\* signature, one named "ALICE" (in two fragments) with one, one named "Bob"
RecordChoices(schema) ==
    LET t == title_prop_name(schema)
    IN {Page(t, <<<<"a", "l", "i", "c", "e", " ">>>>, <<>>),
        Page(t, <<<<"A", "L">>, <<"I", "C", "E">>>>, <<File(<<"u", "2">>)>>),
        Page(t, <<<<"B", "o", "b">>>>, <<External(<<"u", "3">>)>>)}

SeqsUpTo(S, n) == UNION {[1..k -> S] : k \in 0..n}

Stores ==
    {[page |-> ("Signature" :> FilesProp(files)), schema |-> schema, records |-> records, page_size |-> size] :
        files \in {<<>>, <<File(<<"u", "1">>)>>},
        schema \in Schemas,
        records \in UNION {SeqsUpTo(RecordChoices(s), MaxRecords) : s \in Schemas},
        size \in {1, MaxRecords}}

ConsistentStores == {s \in Stores : \A i \in 1..Len(s.records) : s.records[i] \in RecordChoices(s.schema)}

RemitterChoices ==
    {a @@ b @@ c :
        a \in {EmptyDict, "signature_url" :> <<"u", "0">>},
        b \in {EmptyDict, "id" :> <<"p", "1">>},
        c \in {EmptyDict, "name" :> <<"A", "l", "i", "c", "e">>, "name" :> <<" ", "a", "l", "i", "c", "e">>,
               ("name" :> <<>>) @@ ("remitter_name" :> <<"B", "o", "b">>)}}

\* requests that differ in the remitter's references and in the record store
Init ==
    /\ Idle
    /\ wpc = "idle" /\ wAmount = <<>> /\ wCurrency = <<>> /\ wOut = <<>>
    /\ remitter \in RemitterChoices
    /\ beneficiary = ("beneficiary_name" :> <<"B", "o", "b">>)
    /\ extra = ("currency" :> <<"I", "N", "R">>) @@ ("amount_figures" :> <<"1", "5", "0", "0", ".", "5", "0">>)
    /\ store \in ConsistentStores
    /\ template = [declared |-> {"date", "signature"}]

vars == <<gvars, wvars>>

Spec == Init /\ [][Next]_vars

\* the records of the search's domain: "alice " with no signature, "ALICE"
\* with one, and an untitled record (an empty title array) with one
SearchRecordChoices(schema) ==
    LET t == title_prop_name(schema)
    IN {Page(t, <<<<"a", "l", "i", "c", "e", " ">>>>, <<>>),
        Page(t, <<<<"A", "L">>, <<"I", "C", "E">>>>, <<File(<<"u", "2">>)>>),
        Page(t, <<>>, <<File(<<"u", "4">>)>>)}

SearchStores ==
    {[page |-> ("Signature" :> FilesProp(<<>>)), schema |-> schema, records |-> records, page_size |-> size] :
        schema \in Schemas,
        records \in UNION {SeqsUpTo(SearchRecordChoices(s), MaxRecords) : s \in Schemas},
        size \in {1, MaxRecords}}

ConsistentSearchStores ==
    {s \in SearchStores : \A i \in 1..Len(s.records) : s.records[i] \in SearchRecordChoices(s.schema)}

\* remitters without a direct reference, whose name is absent, "Alice",
\* " alice ", blank (one space) or empty beside a remitter_name
SearchRemitters ==
    {b @@ c :
        b \in {EmptyDict, "id" :> <<"p", "1">>},
        c \in {EmptyDict, "name" :> <<"A", "l", "i", "c", "e">>, "name" :> <<" ", "a", "l", "i", "c", "e", " ">>, "name" :> <<" ">>,
               ("name" :> <<>>) @@ ("remitter_name" :> <<"B", "o", "b">>)}}

\* requests that reach the by-name search over stores with untitled records
InitSearch ==
    /\ Idle
    /\ wpc = "idle" /\ wAmount = <<>> /\ wCurrency = <<>> /\ wOut = <<>>
    /\ remitter \in SearchRemitters
    /\ beneficiary = ("beneficiary_name" :> <<"B", "o", "b">>)
    /\ extra = ("currency" :> <<"I", "N", "R">>) @@ ("amount_figures" :> <<"1", "5", "0", "0", ".", "5", "0">>)
    /\ store \in ConsistentSearchStores
    /\ template = [declared |-> {"date", "signature"}]

SpecSearch == InitSearch /\ [][Next]_vars


\* requests that differ in the fields present, in the amount and the currency,
\* and in the names the template declares
RemitterFields == {"signature_url", "id", "name", "account_no", "address", "phone", "id_type", "id_value"}
ExtraFields == {"currency", "amount_figures", "date", "charges", "account_to_be_debited_number_currency",
    "notes", "overwrite", "out_path"}

InputFields == ({"beneficiary"} \X BeneficiaryKeys) \cup ({"remitter"} \X RemitterFields) \cup ({"extra"} \X ExtraFields)

AbsentOf(absent, which) == {f[2] : f \in {g \in absent : g[1] = which}}

AbsentChoices ==
    {{}, InputFields, {<<"remitter", "signature_url">>, <<"remitter", "id">>}}
        \cup {{f} : f \in InputFields}

FullBeneficiary == [k \in BeneficiaryKeys |-> IF k = "beneficiary_name" THEN <<"B", "o", "b">> ELSE <<"b", " ", "1">>]

FullRemitter == [k \in RemitterFields |->
    CASE k = "signature_url" -> <<"u", "0">>
      [] k = "id" -> <<"p", "1">>
      [] k = "name" -> <<"A", "l", "i", "c", "e">>
      [] k = "account_no" -> <<"1", "2", "3">>
      [] OTHER -> <<"r", " ", "2">>]

FullExtra(currency, amount) == [k \in ExtraFields |->
    CASE k = "currency" -> currency
      [] k = "amount_figures" -> amount
      [] k = "date" -> <<"2", "0", "2", "6", "-", "0", "2", "-", "0", "1">>
      [] k = "charges" -> <<"o", "u", "r">>
      [] k = "overwrite" -> <<"1">>
      [] k = "out_path" -> <<"o", "u", "t", ".", "d", "o", "c", "x">>
      [] OTHER -> <<"e", " ", "3">>]

DocAmounts == {<<"1", "5", "0", "0", ".", "5", "0">>, <<" ", "1", " ">>, <<"a", "b", "c">>, <<"1", "0", "0", "0", "0", "0">>}
DocCurrencies == {<<"I", "N", "R">>, <<" ", "u", "s", "d", " ">>, <<"X", "Y", "Z">>}

DocTemplates == {{}, {"date"}, {"Date"}, {"foo", "Date"}, {"signature", "date"}, TemplateNames}

InitDoc ==
    /\ Idle
    /\ wpc = "idle" /\ wAmount = <<>> /\ wCurrency = <<>> /\ wOut = <<>>
    /\ \E absent \in AbsentChoices, currency \in DocCurrencies, amount \in DocAmounts :
         /\ beneficiary = Without(FullBeneficiary, AbsentOf(absent, "beneficiary"))
         /\ remitter = Without(FullRemitter, AbsentOf(absent, "remitter"))
         /\ extra = Without(FullExtra(currency, amount), AbsentOf(absent, "extra"))
    /\ store = [page |-> ("Signature" :> FilesProp(<<File(<<"u", "1">>)>>)),
                schema |-> <<[name |-> "Name", type |-> "title"]>>,
                records |-> <<Page("Name", <<<<"A", "l", "i", "c", "e">>>>, <<File(<<"u", "2">>)>>)>>,
                page_size |-> 1]
    /\ template \in {[declared |-> names] : names \in DocTemplates}

SpecDoc == InitDoc /\ [][Next]_vars

\* ------------------------------------------- amount_to_words on its own
AmountChars == {"0", "1", "2", ".", ",", " ", "a", "-"}

RECURSIVE StringsUpTo(_, _)
StringsUpTo(chars, n) ==
    IF n = 0 THEN {<<>>}
    ELSE LET shorter == StringsUpTo(chars, n - 1)
         IN shorter \cup {Append(s, c) : s \in {t \in shorter : Len(t) = n - 1}, c \in chars}

SupportedCodes == {<<"I", "N", "R">>, <<"E", "U", "R">>, <<"G", "B", "P">>} \cup DollarCodes \cup GulfCodes

WordsCurrencies == SupportedCodes \cup {<<"X", "Y", "Z">>, <<"i", "n", "r">>, <<"u", "s", "d">>}

InitWords ==
    /\ wpc = "call"
    /\ wAmount \in StringsUpTo(AmountChars, MaxLen)
    /\ wCurrency \in WordsCurrencies
    /\ wOut = <<>>
    /\ Idle
    /\ remitter = EmptyDict /\ beneficiary = EmptyDict /\ extra = EmptyDict
    /\ store = [page |-> EmptyDict, schema |-> <<>>, records |-> <<>>, page_size |-> 1]
    /\ template = [declared |-> {}]

CallAmountToWords ==
    /\ wpc = "call"
    /\ wOut' = amount_to_words(wAmount, wCurrency)
    /\ wpc' = "returned"
    /\ UNCHANGED <<wAmount, wCurrency>>
    /\ UNCHANGED gvars

NextWords == CallAmountToWords

SpecWords == InitWords /\ [][NextWords]_vars

\* ------------------------------------------------------------- properties
\* the remitter carries a non-empty direct asset reference
HasDirect == "signature_url" \in DOMAIN remitter /\ remitter["signature_url"] # <<>>
\* the remitter carries an identity
HasId == "id" \in DOMAIN remitter /\ remitter["id"] # <<>>
\* the name the by-name search is given
CandidateName ==
    IF "name" \in DOMAIN remitter /\ remitter["name"] # <<>> THEN remitter["name"]
    ELSE IF "remitter_name" \in DOMAIN remitter THEN remitter["remitter_name"]
    ELSE <<>>

\* fetch_signature_url_from_notion has returned
Resolved ==
    \/ pc \in {"image", "list_vars", "reconcile", "render", "output"}
    \/ pc = "done" /\ response.stage \in {"download", "list_vars", "reconcile", "render", "output"}

\* line 488 has been executed
SignatureSet ==
    \/ pc \in {"list_vars", "reconcile", "render", "output"}
    \/ pc = "done" /\ response.stage \in {"list_vars", "reconcile", "render", "output"}

StoreKinds == {"get_page", "get_database", "query_database"}
StoreCalls == SelectSeq(calls, LAMBDA c : c.kind \in StoreKinds)
CallsOf(kind) == SelectSeq(calls, LAMBDA c : c.kind = kind)
Failed(kind) == \E i \in 1..Len(calls) : calls[i].kind = kind /\ calls[i].outcome # "ok"
Succeeded(kind) == \E i \in 1..Len(calls) : calls[i].kind = kind /\ calls[i].outcome = "ok"

\* C1: a remitter with a non-empty direct asset reference gets that reference
\* as the resolver's result, and no call to the record store is ever issued
\* for it, whatever identity or name it also carries.
C1_DirectReferenceWins ==
    HasDirect =>
        /\ StoreCalls = <<>>
        /\ Resolved => signature_url = remitter["signature_url"]

C1_Witness ==
    /\ pc = "done" /\ saved = "download"
    /\ HasDirect /\ HasId /\ CandidateName # <<>>
    /\ signature_url = <<"u", "0">>
    /\ Len(store.records) > 0

\* the record the by-name scan stops at: the first whose title, trimmed and
\* upper-cased, equals the trimmed, upper-cased candidate name
IsMatch(page) ==
    LET t == title_prop_name(store.schema)
    IN /\ t \in DOMAIN page.properties
       /\ Concat(page.properties[t].title) # <<>>
       /\ StrUpper(Strip(Concat(page.properties[t].title))) = StrUpper(Strip(CandidateName))
FirstMatchHasReference ==
    \E i \in 1..Len(store.records) :
        /\ IsMatch(store.records[i])
        /\ \A j \in 1..(i - 1) : ~IsMatch(store.records[j])
        /\ Len(store.records[i].properties["Signature"].files) > 0

\* the by-identity step was taken and yielded no asset reference
IdentityYieldedNone ==
    /\ ~HasDirect /\ HasId
    /\ \/ Failed("get_page")
       \/ Succeeded("get_page") /\ Len(store.page["Signature"].files) = 0

\* C2 (as claimed): whenever the by-identity step yields no asset reference,
\* also when the page was fetched and its Signature is empty, the by-name
\* search is tried next, so a first name match that carries a reference makes
\* the result non-empty when the search's calls succeed.
C2_NameSearchAfterEmptyIdentity ==
    (Resolved /\ IdentityYieldedNone /\ CandidateName # <<>>) =>
        /\ Len(CallsOf("get_database")) > 0
        /\ (FirstMatchHasReference /\ ~Failed("get_database") /\ ~Failed("query_database"))
               => signature_url # <<>>

\* the number of pages the listing of the remitter database comes in
ListingPages ==
    IF Len(store.records) = 0 THEN 1
    ELSE (Len(store.records) + store.page_size - 1) \div store.page_size

\* C3 (as claimed): at most two record-store calls are issued.
C3_AtMostTwoStoreCalls == Len(StoreCalls) <= 2

\* C3 (amended): the record-store calls of a generate call are the resolver's
\* reads and nothing else: at most one page fetch, at most one schema read, and
\* at most one query per page of the listing, all issued before the resolver
\* returns; they can number more than two.
C3_StoreCallsBounded ==
    /\ \A i \in 1..Len(calls) : calls[i].kind \in StoreKinds \cup {"download"}
    /\ Len(CallsOf("get_page")) <= 1
    /\ Len(CallsOf("get_database")) <= 1
    /\ Len(CallsOf("query_database")) <= ListingPages
    /\ Len(CallsOf("download")) <= 1
    /\ \A i \in 1..Len(calls) : calls[i].kind = "download" => i = Len(calls)

C3_Witness ==
    /\ pc = "done" /\ response.status = 200
    /\ Len(StoreCalls) = 4
    /\ Failed("get_page")
    /\ Len(CallsOf("query_database")) = 2

\* C4: no failure of a call made for the signature (the page fetch, the schema
\* read, the listing, the download) ends the generate call: no exception leaves
\* the resolver or build_signature_image, the context gets its "signature"
\* entry, which is the empty string when the last such call failed, and the
\* handler goes on to the reconciliation.
C4_SignatureFailuresSwallowed ==
    /\ response.stage \notin StoreKinds \cup {"download"}
    /\ SignatureSet => "signature" \in DOMAIN ctx
    /\ (SignatureSet /\ Len(calls) > 0 /\ calls[Len(calls)].outcome # "ok") => ctx["signature"] = Text(<<>>)
    /\ (pc = "done" /\ Len(calls) > 0) => response.stage \in {"list_vars", "reconcile", "render", "output"}

C4_Witness ==
    /\ pc = "done" /\ saved = "download"
    /\ Failed("get_page") /\ Succeeded("query_database") /\ Failed("download")
    /\ signature_url # <<>>
    /\ ctx["signature"] = Text(<<>>)

\* the names of a list
NamesOf(list) == {list[i] : i \in 1..Len(list)}
\* the names of a set in code-point order
InOrder(S) == CHOOSE s \in Enumerations(S) : \A i, j \in 1..Len(s) : i < j => Rank(s[i]) < Rank(s[j])

\* the reconciliation has been decided
Reconciled ==
    \/ pc \in {"render", "output"}
    \/ pc = "done" /\ response.stage \in {"reconcile", "render", "output"}

C6_RenderOnlyWhenComplete ==
    /\ render_calls > 0 => template.declared \subseteq DOMAIN ctx
    /\ (pc = "done" /\ Reconciled /\ ~(template.declared \subseteq DOMAIN ctx)) =>
           /\ render_calls = 0 /\ saved = ""
           /\ response = MissingResponse(InOrder(template.declared \ DOMAIN ctx))
    /\ "missing_variables" \in response.keys => response.stage = "reconcile"

\* lines 452-480 have been executed
ContextBuilt == pc \notin {"start", "build"} /\ response.stage # "env"

\* the input a context key is read from
InputOf(key) ==
    IF key \in BeneficiaryKeys THEN <<"beneficiary", key>>
    ELSE IF key \in RemitterRawKeys \cup RemitterUpperKeys THEN <<"remitter", RemitterField(key)>>
    ELSE IF key = "amount_figures_text" THEN <<"extra", "amount_figures">>
    ELSE <<"extra", key>>
Present(input) ==
    CASE input[1] = "beneficiary" -> input[2] \in DOMAIN beneficiary
      [] input[1] = "remitter" -> input[2] \in DOMAIN remitter
      [] OTHER -> input[2] \in DOMAIN extra

\* C7 (as claimed): the context has every key whatever fields are present, and
\* every key whose input is absent holds the empty string.
C7_AbsentMapsToEmpty ==
    ContextBuilt =>
        /\ ContextKeys \subseteq DOMAIN ctx
        /\ \A key \in ContextKeys : ~Present(InputOf(key)) => ctx[key] = Text(<<>>)

\* what a key holds when its input is absent
DefaultOf(key) ==
    CASE key = "date" -> Today
      [] key = "currency" -> <<"U", "S", "D">>
      [] key = "charges" -> <<"S", "H", "A">>
      [] OTHER -> <<>>

\* C7 (amended): the context has every key whatever fields are present, the
\* signature included once the reconciliation is reached, and a key whose
\* input is absent holds the empty string, except the date (today's date),
\* the currency ("USD") and the charges ("SHA").
C7_ContextTotal ==
    /\ ContextBuilt =>
        /\ ContextKeys \subseteq DOMAIN ctx
        /\ \A key \in ContextKeys : ~Present(InputOf(key)) => ctx[key] = Text(DefaultOf(key))
    /\ (pc \in {"list_vars", "reconcile"} \/ Reconciled) => DOMAIN ctx = ContextKeys \cup {"signature"}

C7_Witness ==
    /\ pc = "reconcile"
    /\ beneficiary = EmptyDict /\ remitter = EmptyDict /\ extra = EmptyDict
    /\ ctx["date"] = Text(Today)
    /\ ctx["notes"] = Text(<<>>)

\* C9 (as claimed): the amount-words entry of the context is the converter's
\* result for the stripped amount and the normalized currency, unchanged, so
\* in title case: "1500.50" in INR gives the phrase of the specification.
C9_AmountWordsUnchanged ==
    ContextBuilt =>
        /\ ctx["amount_figures_text"] = Text(amount_to_words(ctx["amount_figures"].text, ctx["currency"].text))
        /\ (ctx["amount_figures"].text = <<"1", "5", "0", "0", ".", "5", "0">> /\ ctx["currency"].text = <<"I", "N", "R">>)
               => ctx["amount_figures_text"] = Text(<<"O", "n", "e", " ", "T", "h", "o", "u", "s", "a", "n", "d", " ", "F", "i", "v", "e", " ", "H", "u", "n", "d", "r", "e", "d", " ", "R", "u", "p", "e", "e", "s", " ", "A", "n", "d", " ", "F", "i", "f", "t", "y", " ", "P", "a", "i", "s", "e", " ", "O", "n", "l", "y">>)

\* the unit names of the specification's table: singular, plural
TableMajor(cur) ==
    IF cur = <<"I", "N", "R">> THEN <<<<"R", "u", "p", "e", "e">>, <<"R", "u", "p", "e", "e", "s">>>>
    ELSE IF cur \in DollarCodes THEN <<<<"D", "o", "l", "l", "a", "r">>, <<"D", "o", "l", "l", "a", "r", "s">>>>
    ELSE IF cur = <<"E", "U", "R">> THEN <<<<"E", "u", "r", "o">>, <<"E", "u", "r", "o", "s">>>>
    ELSE IF cur = <<"G", "B", "P">> THEN <<<<"P", "o", "u", "n", "d">>, <<"P", "o", "u", "n", "d", "s">>>>
    ELSE IF cur = <<"A", "E", "D">> THEN <<<<"D", "i", "r", "h", "a", "m">>, <<"D", "i", "r", "h", "a", "m", "s">>>>
    ELSE IF cur \in RialCodes THEN <<<<"R", "i", "a", "l">>, <<"R", "i", "a", "l", "s">>>>
    ELSE <<<<"D", "i", "n", "a", "r">>, <<"D", "i", "n", "a", "r", "s">>>>
TableMinor(cur) ==
    IF cur = <<"I", "N", "R">> THEN <<<<"P", "a", "i", "s", "a">>, <<"P", "a", "i", "s", "e">>>>
    ELSE IF cur \in DollarCodes \cup {<<"E", "U", "R">>} THEN <<<<"C", "e", "n", "t">>, <<"C", "e", "n", "t", "s">>>>
    ELSE IF cur = <<"G", "B", "P">> THEN <<<<"P", "e", "n", "c", "e">>, <<"P", "e", "n", "c", "e">>>>
    ELSE <<<<"F", "i", "l", "s">>, <<"F", "i", "l", "s">>>>

HasToken(text, token) == \E i \in 1..Len(Split(text, " ")) : Split(text, " ")[i] = token

\* C8 (as claimed): for a supported currency the phrase names the major unit
\* in the singular exactly when the major part is 1 and in the plural
\* otherwise, and likewise the minor unit when the minor part is not zero.
C8_UnitsAgreeInNumber ==
    (wpc = "returned" /\ wOut # <<>> /\ StrUpper(wCurrency) \in SupportedCodes) =>
        LET p == ParseAmount(wAmount)
            cur == StrUpper(wCurrency)
        IN /\ HasToken(wOut, TableMajor(cur)[IF p.major = 1 THEN 1 ELSE 2])
           /\ p.minor # 0 => HasToken(wOut, TableMinor(cur)[IF p.minor = 1 THEN 1 ELSE 2])

\* a decimal number, surrounding whitespace aside: digits, grouped by "," if at
\* all, with at most one "." and at least one digit
IsDecimalAmount(s) ==
    LET parts == Split(RemoveChar(Strip(s), ","), ".")
    IN /\ Len(parts) <= 2
       /\ \A i \in 1..Len(parts) : parts[i] = <<>> \/ IsDigitStr(parts[i])
       /\ \E i \in 1..Len(parts) : IsDigitStr(parts[i])

\* C10 (as claimed): an empty or unparsable amount gives the empty phrase;
\* only a decimal number gives words.
C10_UnparsableGivesEmpty ==
    wpc = "returned" => (wOut # <<>> => IsDecimalAmount(wAmount))


\* the segments of a phrase joined by single spaces
RECURSIVE Phrase(_)
Phrase(segments) ==
    IF Len(segments) = 0 THEN <<>>
    ELSE IF Len(segments) = 1 THEN segments[1]
    ELSE segments[1] \o <<" ">> \o Phrase(Tail(segments))

\* the words of a number in title case, hyphens replaced by spaces
TitleWords(n, currency) ==
    StrTitle(ReplaceChar(num2words(n, IF StrUpper(currency) = <<"I", "N", "R">> THEN "en_IN" ELSE "en"), "-", " "))

\* every unit name of the table
UnitNames ==
    UNION {{TableMajor(c)[1], TableMajor(c)[2], TableMinor(c)[1], TableMinor(c)[2]} : c \in SupportedCodes}

\* C11: a returned phrase is composed in this priority order: with a non-zero
\* minor part and a minor-unit name, "<Major> <MajorUnit> And <Minor>
\* <MinorUnit> Only"; else with a major-unit name, "<Major> <MajorUnit> Only";
\* else (unknown currency code) "<Major> Only" when the minor part is zero and
\* "<Major> Point <Minor> Only" otherwise, so the phrase of an unknown currency
\* ends with "Only" and holds no unit name.
C11_CompositionOrder ==
    (wpc = "returned" /\ wOut # <<>>) =>
        LET p == ParseAmount(wAmount)
            cur == StrUpper(wCurrency)
            major_unit == MajorUnit(cur, p.major)
            minor_unit == MinorUnit(cur, p.minor)
            tokens == Split(wOut, " ")
        IN /\ (p.minor # 0 /\ minor_unit # <<>>) =>
                  wOut = Phrase(<<TitleWords(p.major, wCurrency), major_unit, <<"A", "n", "d">>,
                                  TitleWords(p.minor, wCurrency), minor_unit, <<"O", "n", "l", "y">>>>)
           /\ (~(p.minor # 0 /\ minor_unit # <<>>) /\ major_unit # <<>>) =>
                  wOut = Phrase(<<TitleWords(p.major, wCurrency), major_unit, <<"O", "n", "l", "y">>>>)
           /\ (cur \notin SupportedCodes /\ p.minor = 0) =>
                  wOut = Phrase(<<TitleWords(p.major, wCurrency), <<"O", "n", "l", "y">>>>)
           /\ (cur \notin SupportedCodes /\ p.minor # 0) =>
                  wOut = Phrase(<<TitleWords(p.major, wCurrency), <<"P", "o", "i", "n", "t">>, TitleWords(p.minor, wCurrency), <<"O", "n", "l", "y">>>>)
           /\ cur \notin SupportedCodes =>
                  /\ tokens[Len(tokens)] = <<"O", "n", "l", "y">>
                  /\ \A i \in 1..Len(tokens) : tokens[i] \notin UnitNames

C11_Witness ==
    /\ wpc = "returned"
    /\ wAmount = <<".", "0", "1">>
    /\ wCurrency = <<"X", "Y", "Z">>
    /\ wOut = <<"Z", "e", "r", "o", " ", "P", "o", "i", "n", "t", " ", "O", "n", "e", " ", "O", "n", "l", "y">>

\* the records of the store that match the candidate name, by position
MatchPositions == {i \in 1..Len(store.records) : IsMatch(store.records[i])}

\* the asset reference of the first matching record of the listing, empty
\* when no record matches
FirstMatchReference ==
    IF MatchPositions = {} THEN <<>>
    ELSE LET first == CHOOSE i \in MatchPositions : \A j \in MatchPositions : i <= j
         IN get_file_url(store.records[first].properties["Signature"])

\* what the by-name search gives for the candidate name: empty for an empty
\* name or a failed record-store call, else the first match's reference
SearchResult ==
    IF CandidateName = <<>> \/ Failed("get_database") \/ Failed("query_database")
    THEN <<>>
    ELSE FirstMatchReference

\* C12: for a remitter with no direct reference and an identity whose page
\* fetch fails (not found, HTTP or transport error), the failure is swallowed
\* and counted as a miss: no error response comes of it, the by-name search is
\* performed next with the remitter's name, and the result of that search
\* (possibly empty) is the resolver's result.
C12_IdentityFailureFallsBackToName ==
    (~HasDirect /\ HasId /\ Failed("get_page")) =>
        /\ calls[1].kind = "get_page"
        /\ response.stage # "get_page"
        /\ pc \notin {"fetch_page", "resolve"}
        /\ (Resolved /\ CandidateName # <<>>) =>
               Len(calls) >= 2 /\ calls[2].kind = "get_database"
        /\ Resolved => signature_url = SearchResult

C12_Witness ==
    /\ Resolved
    /\ ~HasDirect /\ HasId
    /\ Len(calls) >= 3
    /\ calls[1] = Call("get_page", "not_found")
    /\ calls[2] = Call("get_database", "ok")
    /\ ~Failed("query_database")
    /\ signature_url = <<"u", "2">>

\* find_remitter_signature_by_name has been called and has returned
SearchReturned ==
    /\ Resolved
    /\ ~HasDirect
    /\ HasId => Failed("get_page")

\* the listing of the remitter database was obtained whole
Listed == SearchReturned /\ Succeeded("get_database") /\ ~Failed("query_database")

\* the display name of a record, trimmed and case-normalized, equals the
\* trimmed, case-normalized candidate name
NormalizedEqual(page) ==
    LET t == title_prop_name(store.schema)
    IN StrUpper(Strip(get_title(Prop(page.properties, t)))) = StrUpper(Strip(CandidateName))

NormalizedPositions == {i \in 1..Len(results) : NormalizedEqual(results[i])}

\* C13 (as claimed): the search returns the asset reference of the first
\* listed record whose trimmed, case-normalized display name equals the
\* trimmed, case-normalized candidate name, and empty when there is none.
C13_FirstNormalizedMatch ==
    (Listed /\ CandidateName # <<>>) =>
        signature_url =
            IF NormalizedPositions = {} THEN <<>>
            ELSE LET first == CHOOSE i \in NormalizedPositions : \A j \in NormalizedPositions : i <= j
                 IN get_file_url(results[first].properties["Signature"])

\* C13 (amended): the search scans the listed records in listing order and
\* returns the asset reference of the first record whose display name is not
\* empty and, trimmed and case-normalized, equals the trimmed,
\* case-normalized candidate name, also when that reference is empty and a
\* later record of the same name has one; it returns empty when no such
\* record exists; for an empty candidate name it returns empty and issues no
\* record-store call.
C13_FirstTitledMatch ==
    /\ (SearchReturned /\ CandidateName = <<>>) =>
           /\ signature_url = <<>>
           /\ CallsOf("get_database") = <<>>
           /\ CallsOf("query_database") = <<>>
    /\ (Listed /\ CandidateName # <<>>) =>
           /\ results = store.records
           /\ signature_url = FirstMatchReference
           /\ MatchPositions = {} => signature_url = <<>>

C13_Witness ==
    /\ Listed
    /\ CandidateName = <<" ", "a", "l", "i", "c", "e", " ">>
    /\ Len(results) = 2
    /\ IsMatch(results[1]) /\ get_file_url(results[1].properties["Signature"]) = <<>>
    /\ IsMatch(results[2]) /\ get_file_url(results[2].properties["Signature"]) = <<"u", "2">>
    /\ signature_url = <<>>
=============================================================================
